---- MODULE Spec2Model ----
(***************************************************************************)
(* Model of OnlineBot (bot.js): the acquisition of the tracked message     *)
(* (onReady / getOrSendMessage) and the self-rescheduling poll cycle       *)
(* (poll / fetchTotalMemberCount / fetchWorldsMemberCount / buildMessage). *)
(* Every action is one synchronous run of the code between two awaits.     *)
(***************************************************************************)
EXTENDS Integers, Sequences, FiniteSets, TLC

\* ---------------------------------------------------------------- bounds
MaxWorlds == 2       \* most elements matched by the worldsCount selector
MaxChannel == 12     \* most messages the channel ever holds

\* ------------------------------------------------------- program constants
FetchLimit == 10     \* channel.messages.fetch({ limit: 10 })

\* ---------------------------------------------------------------- values
\* JavaScript values are tagged records, so that undefined, NaN, numbers and
\* arrays can be compared with one another.
Undefined == [type |-> "undefined"]
NaN == [type |-> "NaN"]
Num(n) == [type |-> "number", value |-> n]
Arr(s) == [type |-> "array", items |-> s]
MsgRef(id) == [type |-> "message", id |-> id]
IsNum(v) == v.type = "number"
IsArr(v) == v.type = "array"
Bot == "bot"
Other == "other"

Digits == {"0", "1", "2", "3", "4", "5", "6", "7", "8", "9"}

RECURSIVE SeqsUpTo(_, _)
SeqsUpTo(S, n) ==
    IF n = 0 THEN {<<>>}
    ELSE LET shorter == SeqsUpTo(S, n - 1)
         IN  shorter \cup {Append(s, c) : s \in {t \in shorter : Len(t) = n - 1}, c \in S}

\* The texts a scraped node may hold: "", " 1 ", "12", "x", "1x".
Texts == { <<>>, <<" ", "1", " ">>, <<"1", "2">>, <<"x">>, <<"1", "x">> }

\* ------------------------------------------------- String.prototype.trim
RECURSIVE TrimLeft(_)
TrimLeft(s) ==
    IF s # <<>> /\ Head(s) = " " THEN TrimLeft(Tail(s)) ELSE s

RECURSIVE TrimRight(_)
TrimRight(s) ==
    IF s # <<>> /\ s[Len(s)] = " " THEN TrimRight(SubSeq(s, 1, Len(s) - 1)) ELSE s

Trim(s) == TrimRight(TrimLeft(s))

\* ---------------------------------------------------------------- parseInt
DigitVal(c) ==
    CHOOSE d \in 0..9 : <<"0", "1", "2", "3", "4", "5", "6", "7", "8", "9">>[d + 1] = c

RECURSIVE DigitPrefix(_)
DigitPrefix(s) ==
    IF s # <<>> /\ Head(s) \in Digits THEN <<Head(s)>> \o DigitPrefix(Tail(s)) ELSE <<>>

RECURSIVE DecValue(_)
DecValue(d) ==
    IF d = <<>> THEN 0 ELSE 10 * DecValue(SubSeq(d, 1, Len(d) - 1)) + DigitVal(d[Len(d)])

ParseInt(s) ==
    LET d == DigitPrefix(TrimLeft(s))
    IN  IF d = <<>> THEN NaN ELSE Num(DecValue(d))

IsNaN(v) == v = NaN

\* ------------------------------------------- results of util.fetchData
\* A rejected request, the element matched by the totalCount selector (its
\* text), or the elements matched by the worldsCount selector (each with the
\* data of its first child, or without a first child).
Rejected == [ok |-> FALSE]
Fetched(d) == [ok |-> TRUE, data |-> d]
NoChild == [firstChild |-> FALSE]
Child(t) == [firstChild |-> TRUE, data |-> t]

TotalResults == {Rejected} \cup {Fetched(t) : t \in Texts}

\* The first children of the matched elements: none, " 1 ", "12", "x".
Entries == {NoChild} \cup {Child(t) : t \in {<<" ", "1", " ">>, <<"1", "2">>, <<"x">>}}
WorldsResults == {Rejected} \cup {Fetched(e) : e \in SeqsUpTo(Entries, MaxWorlds)}

\* ------------------------------------------------ fetchTotalMemberCount
\* [value, logged]: the value returned and whether the catch logged an error.
FetchTotalMemberCount(res) ==
    IF res = Rejected
    THEN [value |-> Undefined, logged |-> TRUE]
    ELSE LET siteCount == res.data
             count == ParseInt(Trim(siteCount))
         IN  IF IsNaN(count)
             THEN [value |-> Undefined, logged |-> TRUE]
             ELSE [value |-> count, logged |-> FALSE]

\* ----------------------------------------------- fetchWorldsMemberCount
\* [value, logged, partial]: as above, and the local array when the loop threw.
\* The for-loop: [threw, worldsCount] with worldsCount the local array as it
\* stands when the loop ends or throws.
\* A loop that passes over an entry it cannot read.
RECURSIVE WorldsLoopSkip(_, _)
WorldsLoopSkip(element, worldsCount) ==
    IF element = <<>>
    THEN [threw |-> FALSE, worldsCount |-> worldsCount]
    ELSE LET i == Head(element)
             count == IF i.firstChild THEN ParseInt(Trim(i.data)) ELSE NaN
         IN  WorldsLoopSkip(Tail(element),
                            IF IsNaN(count) THEN worldsCount ELSE Append(worldsCount, count))

RECURSIVE WorldsLoop(_, _)
WorldsLoop(element, worldsCount) ==
    IF element = <<>>
    THEN [threw |-> FALSE, worldsCount |-> worldsCount]
    ELSE LET i == Head(element)
         IN  IF ~i.firstChild
             THEN [threw |-> TRUE, worldsCount |-> worldsCount]
             ELSE LET count == ParseInt(Trim(i.data))
                  IN  IF IsNaN(count)
                      THEN [threw |-> TRUE, worldsCount |-> worldsCount]
                      ELSE WorldsLoop(Tail(element), Append(worldsCount, count))

\* A catch that returns what the loop had parsed.
FetchWorldsPartial(res) ==
    IF res = Rejected
    THEN [value |-> Undefined, logged |-> TRUE, partial |-> <<>>]
    ELSE LET loop == WorldsLoop(res.data, <<>>)
         IN  [value |-> Arr(loop.worldsCount), logged |-> loop.threw,
              partial |-> IF loop.threw THEN <<loop.worldsCount>> ELSE <<>>]

FetchWorldsMemberCount(res) ==
    IF res = Rejected
    THEN [value |-> Undefined, logged |-> TRUE, partial |-> <<>>]
    ELSE LET loop == WorldsLoop(res.data, <<>>)
         IN  IF loop.threw
             THEN [value |-> Undefined, logged |-> TRUE, partial |-> <<loop.worldsCount>>]
             ELSE [value |-> Arr(loop.worldsCount), logged |-> FALSE, partial |-> <<>>]

\* ------------------------------------------------------------ configuration
ExtraField == [name |-> <<"Info">>, value |-> <<"text">>, inline |-> FALSE]

EmbedTemplates ==
    { Undefined,
      [title |-> "X", fields |-> <<ExtraField>>],
      [description |-> <<"D">>] }

Configs == [worldsCount : BOOLEAN, embed : EmbedTemplates]

\* ------------------------------------------------------------ buildMessage
\* `${n}`: the decimal digits of a number.
DigitChar(d) == <<"0", "1", "2", "3", "4", "5", "6", "7", "8", "9">>[d + 1]

RECURSIVE NumToString(_)
NumToString(n) ==
    IF n < 10 THEN <<DigitChar(n)>> ELSE NumToString(n \div 10) \o <<DigitChar(n % 10)>>

\* A text that keeps the sentinel once a count is cached.
CountTextSentinel(cached) == <<"*Updating...*">>

CountText(cached) ==
    IF cached # Undefined
    THEN <<"**">> \o NumToString(cached.value) \o <<"**">>
    ELSE <<"*Updating...*">>

WorldFields(worlds) ==
    [i \in 1..Len(worlds.items) |->
        [name |-> <<"World ">> \o NumToString(i),
         value |-> <<"**">> \o NumToString(worlds.items[i].value) \o <<"**">>,
         inline |-> TRUE]]

\* The timestamp key (time of rendering) is left out of the embed.
DefaultEmbed(cached, worlds, cfg) ==
    [color |-> "0x0099ff",
     title |-> "Online Players",
     url |-> "config.url",
     description |-> <<"Current member count: ">> \o CountText(cached),
     fields |-> WorldFields(worlds)]

\* A merge that treats fields like every other key.
ApplyTemplateOverwrite(embed, configEmbed) ==
    IF configEmbed = Undefined
    THEN embed
    ELSE [key \in DOMAIN embed \cup DOMAIN configEmbed |->
            IF key \in DOMAIN configEmbed THEN configEmbed[key] ELSE embed[key]]

ApplyTemplate(embed, configEmbed) ==
    IF configEmbed = Undefined
    THEN embed
    ELSE [key \in DOMAIN embed \cup DOMAIN configEmbed |->
            IF key \in DOMAIN configEmbed
            THEN IF key = "fields"
                 THEN embed[key] \o configEmbed[key]
                 ELSE configEmbed[key]
            ELSE embed[key]]

\* worlds.map throws a TypeError when worldsCount is undefined.
BuildThrows(worlds) == ~IsArr(worlds)

BuildMessage(cached, worlds, cfg) ==
    [embeds |-> <<ApplyTemplate(DefaultEmbed(cached, worlds, cfg), cfg.embed)>>,
     content |-> ""]

\* ------------------------------------------------------------------ state
VARIABLES
    config,       \* this.config (worldsCount selector present, embed template)
    phase,        \* position of run / onReady / getOrSendMessage
    running,      \* this.running
    messageRef,   \* this.messageRef: id of the tracked message, or Undefined
    cachedCount,  \* this.cachedCount
    worldsCount,  \* this.worldsCount
    polls,        \* the activations of poll() in flight
    timers,       \* number of setTimeout(poll) timers armed
    channel,      \* the messages of the channel, oldest first
    ev,           \* what the last step logged and invoked
    sent,         \* number of messages this process has sent
    restarted,    \* whether an earlier process ran on this channel
    prevRef       \* the message an earlier process tracked last

vars == <<config, phase, running, messageRef, cachedCount, worldsCount,
          polls, timers, channel, ev, sent, restarted, prevRef>>

\* ---------------------------------------------------------------- channel
OtherEmbed == [title |-> "Other"]

Message(i, author, embeds) ==
    [id |-> i, createdTimestamp |-> i, author |-> author, embeds |-> embeds]

\* The channel when the first process starts: empty, or holding a message
\* that passes one half of the filter of line 86, or messages that pass both.
InitChannels(cfg) ==
    { <<>>,
      <<Message(1, Bot, <<>>)>>,
      <<Message(1, Other, <<OtherEmbed>>)>>,
      <<Message(1, Bot, BuildMessage(Undefined, Arr(<<>>), cfg).embeds)>>,
      <<Message(1, Bot, BuildMessage(Undefined, Arr(<<>>), cfg).embeds),
        Message(2, Bot, BuildMessage(Undefined, Arr(<<>>), cfg).embeds)>> }

\* A fetch that returns one message fewer.
FetchMessagesShort(ch) ==
    { ch[i] : i \in { j \in 1..Len(ch) : j > Len(ch) - (FetchLimit - 1) } }

\* channel.messages.fetch({ limit: 10 }): the most recent messages
FetchMessages(ch) ==
    { ch[i] : i \in { j \in 1..Len(ch) : j > Len(ch) - FetchLimit } }

BotMessages(messages) ==
    { msg \in messages : msg.author = Bot /\ Len(msg.embeds) > 0 }

\* A sort with the comparison reversed: oldest first.
OldestFirst(botMessages) ==
    CHOOSE a \in botMessages :
        \A b \in botMessages : a.createdTimestamp - b.createdTimestamp <= 0

\* sort by createdTimestamp, newest first, and take the first
NewestFirst(botMessages) ==
    CHOOSE a \in botMessages :
        \A b \in botMessages : b.createdTimestamp - a.createdTimestamp <= 0

\* ------------------------------------------------------------- step record
\* errors: the functions whose catch logged an error; partial: the local
\* worldsCount array when the loop of fetchWorldsMemberCount threw; cmp: the
\* newCount and cachedCount compared on line 60; push: the message of the
\* edit invoked and its representation; acquired: the message found or sent;
\* element: the elements the worldsCount selector matched on the fetched page.
Quiet == [errors |-> {}, partial |-> <<>>, cmp |-> <<>>, push |-> <<>>, acquired |-> <<>>,
          element |-> <<>>]

\* ------------------------------------------------------------ constructor
Init ==
    /\ config \in Configs
    /\ phase = "constructed"
    /\ running = FALSE
    /\ messageRef = Undefined
    /\ cachedCount = Undefined
    /\ worldsCount = Arr(<<>>)
    /\ polls = <<>>
    /\ timers = 0
    /\ channel \in InitChannels(config)
    /\ ev = Quiet
    /\ sent = 0
    /\ restarted = FALSE
    /\ prevRef = Undefined

\* -------------------------------------------------------------------- run
Run ==
    /\ phase = "constructed"
    /\ running' = TRUE
    /\ phase' = "login"
    /\ ev' = Quiet
    /\ UNCHANGED <<config, messageRef, cachedCount, worldsCount, polls, timers,
                   channel, sent, restarted, prevRef>>

\* ---------------------------------------------------------------- onReady
\* A handler registered with client.on: it runs again on a later ready event.
OnReadyAgain ==
    /\ phase \in {"login", "polling"}
    /\ phase' = "fetchChannel"
    /\ ev' = Quiet
    /\ UNCHANGED <<config, running, messageRef, cachedCount, worldsCount, polls,
                   timers, channel, sent, restarted, prevRef>>

\* A handler that does not await getOrSendMessage before it calls poll.
OnReadyNoAwait ==
    /\ phase = "login"
    /\ phase' = "fetchChannel"
    /\ polls' = Append(polls, [pc |-> "fetchTotal", newCount |-> Undefined, pushes |-> 0,
                               target |-> Undefined, repr |-> <<>>])
    /\ ev' = Quiet
    /\ UNCHANGED <<config, running, messageRef, cachedCount, worldsCount,
                   timers, channel, sent, restarted, prevRef>>

\* The ready event: onReady runs up to the await of client.channels.fetch.
OnReady ==
    /\ phase = "login"
    /\ phase' = "fetchChannel"
    /\ ev' = Quiet
    /\ UNCHANGED <<config, running, messageRef, cachedCount, worldsCount, polls,
                   timers, channel, sent, restarted, prevRef>>

\* A new activation of poll(), suspended in fetchTotalMemberCount.
NewPoll ==
    [pc |-> "fetchTotal", newCount |-> Undefined, pushes |-> 0,
     target |-> Undefined, repr |-> <<>>]

\* client.channels.fetch settles: a text channel, or the throw of line 83 /
\* a rejection, which ends onReady.
ChannelFetched(res) ==
    /\ phase = "fetchChannel"
    /\ phase' = IF res = "text" THEN "fetchMessages" ELSE "failed"
    /\ ev' = Quiet
    /\ UNCHANGED <<config, running, messageRef, cachedCount, worldsCount, polls,
                   timers, channel, sent, restarted, prevRef>>

\* channel.messages.fetch settles.
MessagesFetched(ok) ==
    /\ phase = "fetchMessages"
    /\ IF ~ok
       THEN /\ phase' = "failed"
            /\ ev' = Quiet
            /\ UNCHANGED <<messageRef, polls>>
       ELSE LET messages == FetchMessages(channel)
                botMessages == BotMessages(messages)
            IN  IF Cardinality(botMessages) > 0
                THEN LET message == NewestFirst(botMessages)
                     IN  /\ messageRef' = MsgRef(message.id)
                         /\ phase' = "polling"
                         /\ polls' = Append(polls, NewPoll)
                         /\ ev' = [Quiet EXCEPT !.acquired = <<"found", message.id>>]
                ELSE /\ phase' = "sending"
                     /\ ev' = Quiet
                     /\ UNCHANGED <<messageRef, polls>>
    /\ UNCHANGED <<config, running, cachedCount, worldsCount, timers, channel,
                   sent, restarted, prevRef>>

\* channel.send(this.buildMessage()) settles.
MessageSent(ok) ==
    /\ phase = "sending"
    /\ IF ~ok
       THEN /\ phase' = "failed"
            /\ ev' = Quiet
            /\ UNCHANGED <<messageRef, polls, channel, sent>>
       ELSE /\ Len(channel) < MaxChannel
            /\ LET id == Len(channel) + 1
                   message == Message(id, Bot,
                                      BuildMessage(cachedCount, worldsCount, config).embeds)
               IN  /\ channel' = Append(channel, message)
                   /\ messageRef' = MsgRef(message.id)
                   /\ ev' = [Quiet EXCEPT !.acquired = <<"sent", message.id>>]
            /\ sent' = sent + 1
            /\ phase' = "polling"
            /\ polls' = Append(polls, NewPoll)
    /\ UNCHANGED <<config, running, cachedCount, worldsCount, timers, restarted, prevRef>>

\* ------------------------------------------------------------------- poll
RemoveAt(s, i) == SubSeq(s, 1, i - 1) \o SubSeq(s, i + 1, Len(s))

\* An update on every valid count, changed or not.
ShouldUpdateAlways(newCount, cached) == newCount # Undefined /\ ~IsNaN(newCount)

\* An update on any change of the value, undefined included.
ShouldUpdateAnyChange(newCount, cached) == newCount # cached

\* line 60: the condition of the update
ShouldUpdate(newCount, cached) ==
    newCount # Undefined /\ ~IsNaN(newCount) /\ newCount # cached

\* A catch that logs the error and leaves this.running as it is.
CatchKeepsRunning(run) == run

\* lines 65-68: what the catch of poll does to this.running
CatchRunning(run) == FALSE

\* A re-queue that does not test this.running.
RequeueAlways(i, run) ==
    /\ polls' = RemoveAt(polls, i)
    /\ timers' = timers + 1

\* A re-queue that is skipped when the cycle made no update.
RequeueAfterUpdate(i, run) ==
    /\ polls' = RemoveAt(polls, i)
    /\ timers' = IF run /\ polls[i].pc = "edit" THEN timers + 1 ELSE timers

\* lines 70-72: the activation ends and re-queues itself while running.
Requeue(i, run) ==
    /\ polls' = RemoveAt(polls, i)
    /\ timers' = IF run THEN timers + 1 ELSE timers

\* lines 60-73, entered once the fetches have settled, with the errors
\* logged so far in this step: up to the await of messageRef.edit, or to the
\* end of poll.
Update(i, newCount, worlds, errors, partial, element) ==
    IF ShouldUpdate(newCount, cachedCount)
    THEN /\ cachedCount' = newCount
         /\ IF BuildThrows(worlds)
            THEN /\ running' = CatchRunning(running)
                 /\ Requeue(i, running')
                 /\ ev' = [Quiet EXCEPT !.errors = errors \cup {"poll"},
                                        !.partial = partial, !.element = element,
                                        !.cmp = <<newCount, cachedCount>>]
            ELSE LET repr == BuildMessage(cachedCount', worlds, config)
                 IN  /\ polls' = [polls EXCEPT ![i].pc = "edit",
                                               ![i].newCount = newCount,
                                               ![i].pushes = @ + 1,
                                               ![i].target = messageRef,
                                               ![i].repr = <<repr>>]
                     /\ ev' = [Quiet EXCEPT !.errors = errors, !.partial = partial, !.element = element,
                                            !.cmp = <<newCount, cachedCount>>,
                                            !.push = <<messageRef, repr>>]
                     /\ UNCHANGED <<running, timers>>
    ELSE /\ Requeue(i, running)
         /\ ev' = [Quiet EXCEPT !.errors = errors, !.partial = partial, !.element = element,
                                !.cmp = <<newCount, cachedCount>>]
         /\ UNCHANGED <<cachedCount, running>>

\* util.fetchData(config.totalCount) settles in activation i.
TotalFetched(i, res) ==
    /\ polls[i].pc = "fetchTotal"
    /\ LET r == FetchTotalMemberCount(res)
           newCount == r.value
           errors == IF r.logged THEN {"fetchTotal"} ELSE {}
       IN  IF config.worldsCount
           THEN /\ polls' = [polls EXCEPT ![i].pc = "fetchWorlds", ![i].newCount = newCount]
                /\ ev' = [Quiet EXCEPT !.errors = errors]
                /\ UNCHANGED <<cachedCount, worldsCount, running, timers>>
           ELSE /\ Update(i, newCount, worldsCount, errors, <<>>, <<>>)
                /\ UNCHANGED worldsCount
    /\ UNCHANGED <<config, phase, messageRef, channel, sent, restarted, prevRef>>

\* util.fetchData(config.worldsCount) settles in activation i.
WorldsFetched(i, res) ==
    /\ polls[i].pc = "fetchWorlds"
    /\ LET r == FetchWorldsMemberCount(res)
           errors == IF r.logged THEN {"fetchWorlds"} ELSE {}
       IN  /\ worldsCount' = r.value
           /\ Update(i, polls[i].newCount, worldsCount', errors, r.partial,
                     IF res = Rejected THEN <<>> ELSE <<res.data>>)
    /\ UNCHANGED <<config, phase, messageRef, channel, sent, restarted, prevRef>>

\* An update that sends a new message where the code edits the tracked one.
EditedSends(i, ok) ==
    /\ polls[i].pc = "edit"
    /\ IF ok
       THEN /\ Len(channel) < MaxChannel
            /\ channel' = Append(channel,
                                 Message(Len(channel) + 1, Bot, polls[i].repr[1].embeds))
            /\ ev' = Quiet
            /\ UNCHANGED running
       ELSE /\ running' = CatchRunning(running)
            /\ ev' = [Quiet EXCEPT !.errors = {"poll"}]
            /\ UNCHANGED channel
    /\ Requeue(i, running')
    /\ UNCHANGED <<config, phase, messageRef, cachedCount, worldsCount, sent,
                   restarted, prevRef>>

\* messageRef.edit(...) settles in activation i.
Edited(i, ok) ==
    /\ polls[i].pc = "edit"
    /\ IF ok
       THEN /\ channel' = [channel EXCEPT ![polls[i].target.id].embeds =
                                                    polls[i].repr[1].embeds]
            /\ ev' = Quiet
            /\ UNCHANGED running
       ELSE /\ running' = CatchRunning(running)
            /\ ev' = [Quiet EXCEPT !.errors = {"poll"}]
            /\ UNCHANGED channel
    /\ Requeue(i, running')
    /\ UNCHANGED <<config, phase, messageRef, cachedCount, worldsCount, sent,
                   restarted, prevRef>>

\* A timer that stays armed after it fires (setInterval).
TimerFiredInterval ==
    /\ timers > 0
    /\ timers' = timers
    /\ polls' = Append(polls, NewPoll)
    /\ ev' = Quiet
    /\ UNCHANGED <<config, phase, running, messageRef, cachedCount, worldsCount,
                   channel, sent, restarted, prevRef>>

\* A timer set by line 72 fires: poll() runs up to its first await.
TimerFired ==
    /\ timers > 0
    /\ timers' = timers - 1
    /\ polls' = Append(polls, NewPoll)
    /\ ev' = Quiet
    /\ UNCHANGED <<config, phase, running, messageRef, cachedCount, worldsCount,
                   channel, sent, restarted, prevRef>>

\* ------------------------------------------------------------ environment
\* Somebody posts a message that is not an embed of the bot. The channel
\* holds at most one message that passes just one half of the filter of
\* line 86 (written by the bot without an embed, or by another with one).
Odd(msg) == (msg.author = Bot) # (Len(msg.embeds) > 0)

OtherPost(author, n) ==
    /\ Len(channel) < MaxChannel
    /\ ~(author = Bot /\ n > 0)
    /\ (author = Bot \/ n > 0) => \A i \in DOMAIN channel : ~Odd(channel[i])
    /\ channel' = Append(channel,
                         Message(Len(channel) + 1, author,
                                 IF n = 0 THEN <<>> ELSE <<OtherEmbed>>))
    /\ ev' = Quiet
    /\ UNCHANGED <<config, phase, running, messageRef, cachedCount, worldsCount,
                   polls, timers, sent, restarted, prevRef>>

\* The process ends and a new one is constructed (index.js) on the same
\* channel, with the same configuration.
Restart ==
    /\ phase # "constructed"
    /\ restarted' = TRUE
    /\ prevRef' = IF messageRef # Undefined THEN messageRef ELSE prevRef
    /\ phase' = "constructed"
    /\ running' = FALSE
    /\ messageRef' = Undefined
    /\ cachedCount' = Undefined
    /\ worldsCount' = Arr(<<>>)
    /\ polls' = <<>>
    /\ timers' = 0
    /\ sent' = 0
    /\ ev' = Quiet
    /\ UNCHANGED <<config, channel>>

\* --------------------------------------------------------- specifications
Acquire ==
    \/ Run
    \/ OnReady
    \/ \E res \in {"text", "other", "null", "rejected"} : ChannelFetched(res)
    \/ \E ok \in BOOLEAN : MessagesFetched(ok)
    \/ \E ok \in BOOLEAN : MessageSent(ok)

Poll ==
    \/ \E i \in DOMAIN polls, res \in TotalResults : TotalFetched(i, res)
    \/ \E i \in DOMAIN polls, res \in WorldsResults : WorldsFetched(i, res)
    \/ \E i \in DOMAIN polls, ok \in BOOLEAN : Edited(i, ok)
    \/ TimerFired

Next == Acquire \/ Poll

\* The process starts on a channel that is empty, where acquisition sends a
\* message, or that holds one message of the bot, which acquisition re-uses.
InitPoll ==
    /\ Init
    /\ \/ channel = <<>>
       \/ Len(channel) = 1 /\ BotMessages(FetchMessages(channel)) # {}

\* One process lifetime.
Spec == InitPoll /\ [][Next]_vars

Posts == \E author \in {Bot, Other}, n \in {0, 1} : OtherPost(author, n)

\* The worlds pages of at most one element: the scheduling of the loop reads
\* whether fetchWorldsMemberCount returned, not what it returned.
ShortPages == {Rejected, Fetched(<<>>)} \cup {Fetched(<<e>>) : e \in Entries}

NextLive ==
    \/ Acquire
    \/ \E i \in DOMAIN polls, res \in TotalResults : TotalFetched(i, res)
    \/ \E i \in DOMAIN polls, res \in ShortPages : WorldsFetched(i, res)
    \/ \E i \in DOMAIN polls, ok \in BOOLEAN : Edited(i, ok)
    \/ TimerFired

\* A timer that is armed fires and a network call that is awaited settles.
Fairness ==
    /\ WF_vars(TimerFired)
    /\ WF_vars(\E i \in DOMAIN polls, res \in TotalResults : TotalFetched(i, res))
    /\ WF_vars(\E i \in DOMAIN polls, res \in ShortPages : WorldsFetched(i, res))
    /\ WF_vars(\E i \in DOMAIN polls, ok \in BOOLEAN : Edited(i, ok))

\* One process lifetime under that scheduling.
SpecLive == InitPoll /\ [][NextLive]_vars /\ Fairness

\* Process restarts on a channel where others post; the configuration has no
\* worldsCount selector and no embed template.
InitRestart == Init /\ ~config.worldsCount /\ config.embed = Undefined

NextRestart ==
    \/ Acquire
    \/ \E i \in DOMAIN polls, res \in TotalResults : TotalFetched(i, res)
    \/ \E i \in DOMAIN polls, ok \in BOOLEAN : Edited(i, ok)
    \/ TimerFired
    \/ Posts
    \/ Restart

SpecRestart == InitRestart /\ [][NextRestart]_vars

\* ================================================================ claims
\* The scheduler states of the poll loop.
Stopped == phase = "polling" /\ ~running
InFlight == Len(polls) > 0

\* The messages among the 10 most recent of ch that the bot wrote with an embed.
RecentMatches(ch) ==
    { i \in DOMAIN ch : Len(ch) - i < 10 /\ ch[i].author = Bot /\ Len(ch[i].embeds) > 0 }

\* ---------------------------------------------------------------------- C1
\* C1 as stated: every step of a poll cycle in which an error is raised -- in
\* the aggregate fetch or parse, the segment fetch or parse, or the push --
\* leaves the loop stopped: running false, no cycle in flight, no timer armed.
C1_AnyErrorStops ==
    [][ev'.errors # {} => (~running' /\ polls' = <<>> /\ timers' = 0)]_vars

\* C1 amended: an error stops the loop exactly when it reaches the catch of
\* poll (a rejected edit, or buildMessage throwing); then running is false,
\* no cycle is in flight, no timer is armed, and it stays so. An error caught
\* inside fetchTotalMemberCount or fetchWorldsMemberCount leaves running as
\* it was.
C1_PollCatchStops ==
    [][ /\ "poll" \in ev'.errors => (~running' /\ polls' = <<>> /\ timers' = 0)
        /\ (running /\ ~running') => "poll" \in ev'.errors
        /\ (ev'.errors # {} /\ "poll" \notin ev'.errors) => running' = running
        /\ Stopped => (Stopped' /\ polls' = <<>> /\ timers' = 0) ]_vars

\* A rejected edit has stopped the loop.
C1_Witness == Stopped /\ ev.errors = {"poll"} /\ cachedCount # Undefined

\* ---------------------------------------------------------------------- C2
\* C2 as stated: when a cycle compares a fetched count with cachedCount, an
\* equal count invokes no push, and a different count invokes exactly one push
\* of the tracked message, with the representation built from the updated
\* cachedCount.
C2_ChangeGating ==
    [][ev'.cmp # <<>> =>
        LET newCount == ev'.cmp[1]
            old == ev'.cmp[2]
        IN  /\ newCount = old => ev'.push = <<>>
            /\ (IsNum(newCount) /\ newCount # old) =>
                   /\ cachedCount' = newCount
                   /\ ev'.push # <<>>
                   /\ ev'.push = <<messageRef, BuildMessage(cachedCount', worldsCount', config)>>
                   /\ \A i \in DOMAIN polls' : polls'[i].pushes = 1 ]_vars

\* ---------------------------------------------------------------------- C3
\* C3: a timer is armed only while running is true, and once the loop has
\* stopped it stays stopped, with no timer armed and no cycle begun.
C3_StoppedTerminal ==
    [][ /\ timers' > 0 => running'
        /\ Stopped => (Stopped' /\ timers' = 0 /\ polls' = <<>>) ]_vars

\* The loop has stopped after a cycle that had set cachedCount.
C3_Witness == Stopped /\ timers = 0 /\ ~InFlight /\ cachedCount # Undefined

\* ---------------------------------------------------------------------- C4
\* C4: at most one poll cycle is in flight, at most one timer is armed, and
\* no timer is armed while a cycle is in flight.
C4_NoOverlap ==
    /\ Len(polls) <= 1
    /\ timers <= 1
    /\ InFlight => timers = 0

\* A later cycle (cachedCount is set) is suspended on the edit.
C4_Witness ==
    /\ InFlight
    /\ polls[1].pc = "edit"
    /\ polls[1].newCount # Undefined
    /\ worldsCount # Arr(<<>>)

\* ---------------------------------------------------------------------- C5
\* C5: within a process, messageRef is never assigned again once acquisition
\* has set it, and every edit in flight addresses the message it refers to.
C5_OneTrackedMessage ==
    [][ /\ \A i \in DOMAIN polls' : polls'[i].pc = "edit" => polls'[i].target = messageRef'
        /\ (messageRef # Undefined /\ phase' # "constructed") => messageRef' = messageRef ]_vars

\* An edit is in flight while the tracked message is no longer among the 10
\* most recent.
C5_Witness ==
    /\ InFlight
    /\ polls[1].pc = "edit"
    /\ messageRef # Undefined
    /\ Len(channel) - messageRef.id >= 10

\* ---------------------------------------------------------------------- C6
\* C6: when the list of recent messages arrives, acquisition looks at the 10
\* most recent only: if some are written by the bot with an embed it takes the
\* one created last and sends nothing; if none is, it goes on to send, and the
\* send adds exactly one message, which becomes the tracked one.
C6_Acquire ==
    [][ /\ (phase = "fetchMessages" /\ phase' \in {"polling", "sending"}) =>
            LET m == RecentMatches(channel)
            IN  /\ m # {} =>
                      /\ phase' = "polling"
                      /\ messageRef' = MsgRef(CHOOSE i \in m : \A j \in m : j <= i)
                      /\ channel' = channel
                      /\ sent' = sent
                /\ m = {} => (phase' = "sending" /\ channel' = channel /\ sent' = sent)
        /\ (phase = "sending" /\ phase' = "polling") =>
              /\ Len(channel') = Len(channel) + 1
              /\ SubSeq(channel', 1, Len(channel)) = channel
              /\ sent' = sent + 1
              /\ messageRef' = MsgRef(channel'[Len(channel')].id)
              /\ channel'[Len(channel')].author = Bot
              /\ Len(channel'[Len(channel')].embeds) > 0 ]_vars

\* Acquisition has taken the later of two matching messages, which lie at
\* the far end of a full window.
C6_Witness ==
    /\ ev.acquired # <<>>
    /\ ev.acquired[1] = "found"
    /\ Cardinality(RecentMatches(channel)) >= 2
    /\ Len(channel) = 10

\* ---------------------------------------------------------------------- C7
\* C7: in a restarted process, if the message an earlier process tracked last
\* is among the 10 most recent when the list arrives, acquisition takes that
\* message and sends nothing; and a restarted process sends a message only
\* when no message written by the bot with an embed is among the 10 most
\* recent.
C7_RestartRecovery ==
    [][ /\ ( /\ restarted
             /\ prevRef # Undefined
             /\ phase = "fetchMessages"
             /\ phase' \in {"polling", "sending"}
             /\ Len(channel) - prevRef.id < 10 ) =>
               (phase' = "polling" /\ messageRef' = prevRef /\ channel' = channel
                    /\ sent' = sent)
        /\ (restarted /\ sent' > sent) => RecentMatches(channel) = {} ]_vars

\* A restarted process has found the earlier tracked message at the far end
\* of the window.
C7_Witness ==
    /\ restarted
    /\ ev.acquired # <<>>
    /\ ev.acquired[1] = "found"
    /\ messageRef = prevRef
    /\ Len(channel) - messageRef.id = 9

\* ---------------------------------------------------------------------- C8
\* C8: cachedCount is absent or a number, and a cycle that changes it stores
\* the number its own fetch parsed from the text of the page.
C8_CachedValidated ==
    [][ /\ cachedCount' = Undefined \/ (IsNum(cachedCount') /\ cachedCount'.value \in Nat)
        /\ (cachedCount' # cachedCount /\ phase' # "constructed") =>
              /\ IsNum(cachedCount')
              /\ ev'.cmp # <<>>
              /\ ev'.cmp[1] = cachedCount'
              /\ \E t \in Texts : ParseInt(Trim(t)) = cachedCount' ]_vars

\* A failed fetch has left a cached number in place.
C8_Witness ==
    /\ ev.cmp # <<>>
    /\ ev.cmp[1] = Undefined
    /\ IsNum(cachedCount)
    /\ "fetchTotal" \in ev.errors

\* ---------------------------------------------------------------------- C9
\* C9 as stated: worldsCount is always a sequence of integers, and it is the
\* empty sequence when the configuration has no worldsCount selector.
C9_WorldsIsSequence ==
    /\ IsArr(worldsCount)
    /\ \A i \in DOMAIN worldsCount.items : IsNum(worldsCount.items[i])
    /\ ~config.worldsCount => worldsCount = Arr(<<>>)

\* --------------------------------------------------------------------- C10
\* C10: when the extraction of the segment counts fails at some entry, the
\* cycle does not leave the entries parsed before it in worldsCount.
C10_NoPartialCommit ==
    [][ev'.partial # <<>> => worldsCount' # Arr(ev'.partial[1])]_vars

\* The extraction has failed at the second entry.
C10_Witness ==
    /\ ev.partial # <<>>
    /\ Len(ev.partial[1]) >= 1
    /\ "fetchWorlds" \in ev.errors

\* --------------------------------------------------------------------- C11
\* C11: a cycle that ends without an error reaching the catch of poll, with
\* or without an edit, leaves exactly one timer armed, and the timer's firing
\* begins a cycle; with timers firing and network calls settling, an armed
\* timer leads to a cycle in flight and a cycle in flight leads to an armed
\* timer or, when an error reached the catch, to the stopped loop: a loop in
\* which no error is raised goes on for ever.
C11_Reschedules ==
    /\ [][ /\ (InFlight /\ ~InFlight' /\ phase' = "polling" /\ "poll" \notin ev'.errors) =>
                (running' /\ timers' = 1)
           /\ (timers = 1 /\ timers' = 0 /\ phase' = "polling") =>
                (InFlight' /\ polls'[1].pc = "fetchTotal") ]_vars
    /\ (timers = 1) ~> InFlight
    /\ InFlight ~> (timers = 1 \/ Stopped)

\* A timer is armed after a cycle that fetched the cached count again and
\* made no edit.
C11_Witness ==
    /\ timers = 1
    /\ running
    /\ ev.cmp # <<>>
    /\ IsNum(ev.cmp[1])
    /\ ev.cmp[1] = ev.cmp[2]
    /\ ev.push = <<>>

\* --------------------------------------------------------------------- C12
\* C12: until acquisition has set messageRef no cycle is in flight, no timer
\* is armed and no edit is issued; when acquisition fails (no text channel,
\* the list or the send rejected) that stays so.
C12_PollAfterAcquire ==
    /\ messageRef = Undefined => (polls = <<>> /\ timers = 0)
    /\ phase # "polling" => (polls = <<>> /\ timers = 0 /\ messageRef = Undefined)
    /\ \A i \in DOMAIN polls : polls[i].pc = "edit" => polls[i].target # Undefined

\* The send of acquisition was rejected: onReady has ended without a cycle.
C12_Witness ==
    /\ phase = "failed"
    /\ running
    /\ RecentMatches(channel) = {}
    /\ messageRef = Undefined
    /\ ~InFlight

\* --------------------------------------------------------------------- C13
\* Whether the embed template of the configuration sets the key k.
TemplateSets(k) == config.embed # Undefined /\ k \in DOMAIN config.embed

\* The description that states the count n.
Stating(n) == <<"Current member count: ", "**">> \o NumToString(n.value) \o <<"**">>

\* C13 as stated: a cycle whose fetches return validated integers leaves
\* cachedCount equal to the count it fetched, pushes exactly when that count
\* differs from the cached one (always in the first cycle, when the cache is
\* empty), and the description of every representation it pushes states the
\* count it fetched. (As cachedCount is the count of the cycle before, "differs
\* from cachedCount" is "differs from the previous cycle's".)
C13_EndToEnd ==
    [][(ev'.cmp # <<>> /\ IsNum(ev'.cmp[1]) /\ ev'.errors = {}) =>
        LET newCount == ev'.cmp[1]
            old == ev'.cmp[2]
        IN  /\ cachedCount' = newCount
            /\ (ev'.push # <<>>) <=> (newCount # old)
            /\ ev'.push # <<>> =>
                  ev'.push[2].embeds[1].description = Stating(newCount) ]_vars

\* C13 amended: the same, the description stating the fetched count when the
\* embed template does not set the description key.
C13_EndToEndNoOverride ==
    [][(ev'.cmp # <<>> /\ IsNum(ev'.cmp[1]) /\ ev'.errors = {}) =>
        LET newCount == ev'.cmp[1]
            old == ev'.cmp[2]
        IN  /\ cachedCount' = newCount
            /\ (ev'.push # <<>>) <=> (newCount # old)
            /\ (ev'.push # <<>> /\ ~TemplateSets("description")) =>
                  ev'.push[2].embeds[1].description = Stating(newCount) ]_vars

\* A later cycle pushes a count that differs from the cached one, with a
\* template that leaves the description alone.
C13_Witness ==
    /\ ev.push # <<>>
    /\ ev.cmp[2] # Undefined
    /\ ev.cmp[1] # ev.cmp[2]
    /\ TemplateSets("title")
    /\ ev.push[2].embeds[1].description = Stating(cachedCount)

\* --------------------------------------------------------------------- C14
\* C14: when the edit of a cycle is rejected (the catch of poll logs it), the
\* cycle ends with running false, no timer armed, no second edit and the
\* tracked message as it was, and after that no edit is invoked and no cycle
\* begins; an edit that is not rejected shows on the tracked message and
\* leaves running true.
C14_PushFailureStops ==
    [][ /\ (InFlight /\ polls[1].pc = "edit" /\ "poll" \in ev'.errors) =>
              /\ ~running'
              /\ timers' = 0
              /\ ~InFlight'
              /\ ev'.push = <<>>
              /\ channel' = channel
        /\ (InFlight /\ polls[1].pc = "edit" /\ "poll" \notin ev'.errors) =>
              /\ running'
              /\ channel'[messageRef.id].embeds = polls[1].repr[1].embeds
        /\ (Stopped /\ ev.cmp = <<>>) =>
              (ev'.push = <<>> /\ ~InFlight' /\ timers' = 0 /\ ~running') ]_vars

\* The loop has stopped on a rejected edit: the cache holds the new count and
\* the tracked message does not show it.
C14_Witness ==
    /\ Stopped
    /\ ev.errors = {"poll"}
    /\ ev.cmp = <<>>
    /\ channel[messageRef.id].embeds # BuildMessage(cachedCount, worldsCount, config).embeds

\* --------------------------------------------------------------------- C15
\* The merge law for an embed e rendered from the counts cached and worlds:
\* every key of the template but fields has the template's value, every other
\* default key its default value, and the fields are one field per segment
\* count, in order and labelled from 1, followed by the template's fields.
MergeLaw(e, cached, worlds) ==
    /\ \A k \in {"color", "title", "url", "description"} :
          e[k] = IF TemplateSets(k) THEN config.embed[k]
                 ELSE DefaultEmbed(cached, worlds, config)[k]
    /\ Len(e.fields) =
          Len(worlds.items) + IF TemplateSets("fields") THEN Len(config.embed.fields) ELSE 0
    /\ \A i \in 1..Len(worlds.items) :
          e.fields[i] = [name |-> <<"World ">> \o NumToString(i),
                         value |-> <<"**">> \o NumToString(worlds.items[i].value) \o <<"**">>,
                         inline |-> TRUE]
    /\ TemplateSets("fields") =>
          \A j \in 1..Len(config.embed.fields) :
              e.fields[Len(worlds.items) + j] = config.embed.fields[j]

\* C15: every representation that is pushed, and the one that acquisition
\* sends, obeys the merge law for the state it is rendered from.
C15_TemplateMerge ==
    [][ /\ ev'.push # <<>> =>
              MergeLaw(ev'.push[2].embeds[1], cachedCount', worldsCount')
        /\ (ev'.acquired # <<>> /\ ev'.acquired[1] = "sent") =>
              MergeLaw(channel'[Len(channel')].embeds[1], cachedCount', worldsCount') ]_vars

\* A push with two segment fields followed by the field of the template,
\* under the title of the template.
C15_Witness ==
    /\ ev.push # <<>>
    /\ TemplateSets("fields")
    /\ Len(worldsCount.items) = 2
    /\ Len(ev.push[2].embeds[1].fields) = 3
    /\ ev.push[2].embeds[1].fields[3] = ExtraField
    /\ ev.push[2].embeds[1].title = "X"

\* --------------------------------------------------------------------- C16
\* The count an entry of the page states, NaN when it has no text node or no
\* leading digits.
EntryCount(entry) == IF entry.firstChild THEN ParseInt(Trim(entry.data)) ELSE NaN

\* The positions of the entries of element that do not parse.
Invalid(element) == {k \in 1..Len(element) : IsNaN(EntryCount(element[k]))}

FirstInvalid(element) ==
    CHOOSE k \in Invalid(element) : \A j \in Invalid(element) : k <= j

\* C16: a worlds page of N entries that all parse gives the caller an array of
\* the N counts in document order; a page with an entry that does not parse
\* makes the loop stop at the first such entry, with the counts before it in
\* the local array, the error logged and no array given to the caller.
C16_ExtractSegments ==
    [][ ev'.element # <<>> =>
          LET element == ev'.element[1]
          IN  IF Invalid(element) = {}
              THEN /\ IsArr(worldsCount')
                   /\ Len(worldsCount'.items) = Len(element)
                   /\ \A k \in 1..Len(element) :
                         worldsCount'.items[k] = EntryCount(element[k])
                   /\ "fetchWorlds" \notin ev'.errors
                   /\ ev'.partial = <<>>
              ELSE /\ ~IsArr(worldsCount')
                   /\ "fetchWorlds" \in ev'.errors
                   /\ Len(ev'.partial) = 1
                   /\ Len(ev'.partial[1]) = FirstInvalid(element) - 1
                   /\ \A k \in 1..(FirstInvalid(element) - 1) :
                         ev'.partial[1][k] = EntryCount(element[k]) ]_vars

\* A page of two entries whose second does not parse: the loop stopped there
\* with the first count in its local array, and the caller got no array.
C16_Witness ==
    /\ ev.element # <<>>
    /\ Len(ev.element[1]) = 2
    /\ Invalid(ev.element[1]) = {2}
    /\ "fetchWorlds" \in ev.errors
    /\ ev.partial = <<<<EntryCount(ev.element[1][1])>>>>
    /\ ~IsArr(worldsCount)

\* --------------------------------------------------------------------- C17
\* The fields that the tracked message shows.
ShownFields == channel[messageRef.id].embeds[1].fields

\* C17: with the worlds selector configured, a worlds fetch that succeeds
\* replaces this.worldsCount with the fetched counts whether or not they or
\* the total changed; a cycle whose total equals cachedCount invokes no edit,
\* whatever the worlds counts; and the tracked message changes only when an
\* edit settles, which was invoked on a change of the total.
C17_WorldsLag ==
    [][ /\ (ev'.element # <<>> /\ "fetchWorlds" \notin ev'.errors) =>
              /\ IsArr(worldsCount')
              /\ Len(worldsCount'.items) = Len(ev'.element[1])
              /\ \A k \in 1..Len(ev'.element[1]) :
                    worldsCount'.items[k] = EntryCount(ev'.element[1][k])
        /\ (ev'.cmp # <<>> /\ ev'.cmp[1] = ev'.cmp[2]) => ev'.push = <<>>
        /\ ev'.push # <<>> => (ev'.cmp[1] # ev'.cmp[2] /\ cachedCount' = ev'.cmp[1])
        /\ (phase = "polling" /\ channel' # channel) =>
              /\ InFlight /\ polls[1].pc = "edit"
              /\ polls[1].newCount = cachedCount
              /\ channel'[messageRef.id].embeds = polls[1].repr[1].embeds ]_vars

\* A cycle fetched the cached total again and other worlds counts, and made
\* no edit: the tracked message shows worlds counts that are not the cached.
C17_Witness ==
    /\ phase = "polling"
    /\ running
    /\ ~InFlight
    /\ ev.cmp # <<>>
    /\ ev.cmp[1] = ev.cmp[2]
    /\ IsNum(ev.cmp[1])
    /\ ev.push = <<>>
    /\ ev.element # <<>>
    /\ IsArr(worldsCount)
    /\ Len(worldsCount.items) = 2
    /\ Len(ShownFields) = 2
    /\ ShownFields # WorldFields(worldsCount)

\* --------------------------------------------------------------------- C18
\* The tracked message shows the description that is rendered from cachedCount.
Synced ==
    channel[messageRef.id].embeds[1].description =
        IF TemplateSets("description") THEN config.embed.description
        ELSE Stating(cachedCount)

\* The loop was stopped by the rejection of an edit.
PushFailed == Stopped /\ ev.errors = {"poll"} /\ ev.cmp = <<>>

\* C18 as stated: when no cycle is in flight and cachedCount holds a count,
\* the tracked message shows that count unless the loop is stopped, and it
\* shows another only after the rejection of an edit stopped the loop.
C18_Synchronised ==
    (phase = "polling" /\ ~InFlight /\ cachedCount # Undefined) =>
        /\ ~Stopped => Synced
        /\ ~Synced => PushFailed

\* --------------------------------------------------------------------- C19
\* The messages of the bot with an embed that the channel holds.
BotEmbeds(ch) == { i \in DOMAIN ch : ch[i].author = Bot /\ Len(ch[i].embeds) > 0 }

\* C19: a message of the bot appears on the channel only when acquisition
\* sends it, which it does once at most and with no matching message among
\* the most recent ten; a step of a poll cycle leaves the channel as long as
\* it is and every message but the tracked one as it is.
C19_OneSend ==
    [][ /\ BotEmbeds(channel') # BotEmbeds(channel) =>
              /\ phase = "sending" /\ phase' = "polling"
              /\ ~InFlight
              /\ RecentMatches(channel) = {}
              /\ sent = 0 /\ sent' = 1
              /\ BotEmbeds(channel') = BotEmbeds(channel) \cup {Len(channel) + 1}
              /\ messageRef' = MsgRef(Len(channel) + 1)
        /\ sent' <= 1
        /\ (InFlight /\ polls' # polls /\ phase' = "polling") =>
              /\ sent' = sent
              /\ Len(channel') = Len(channel)
              /\ \A i \in DOMAIN channel :
                    i # messageRef.id => channel'[i] = channel[i] ]_vars

\* The message that acquisition sent is the only one, edited by a cycle, and
\* the loop was stopped by an error.
C19_Witness ==
    /\ sent = 1
    /\ Len(channel) = 1
    /\ messageRef = MsgRef(1)
    /\ Stopped
    /\ cachedCount # Undefined
    /\ channel[1].embeds # BuildMessage(Undefined, Arr(<<>>), config).embeds

====
